---- MODULE Spec2Model ----
(***************************************************************************)
(* Request lifecycle of the /mcp endpoint of aws-lambda-mcp-server         *)
(* (package/src/index.ts).  Every call to /mcp is a process; its position  *)
(* (pc) moves at the await points of the route handler and of              *)
(* handleRequest / closeResources.  The MCP server (engine), the transport *)
(* and the server factory are collaborators outside the package: each of   *)
(* their operations either fulfils or rejects, chosen nondeterministically.*)
(* ops, handled and thrown record what the call issued to its              *)
(* collaborators and how it ended, as an instrumented test double would.   *)
(***************************************************************************)
EXTENDS Naturals, Integers, Sequences, FiniteSets

\* Number of calls to /mcp that are in flight or finished.
NumCalls == 2

Calls == 1..NumCalls

\* app.post / app.get register the lifecycle; put/delete/patch/options the rejection.
AllowedVerbs == {"POST", "GET"}
DisallowedVerbs == {"PUT", "DELETE", "PATCH", "OPTIONS"}

\* The handler createHonoApp registers for a verb on /mcp: app.post and app.get
\* register handlers with the same body (the lifecycle), the other four verbs
\* methodNotAllowedHandler.  No handler reads the verb again.
Route(v) == IF v \in AllowedVerbs THEN "lifecycle" ELSE "methodNotAllowedHandler"

\* The fixed message strings of the source are Japanese; they are written here
\* in ASCII: MsgMethodNotAllowed is the message of index.ts:43, MsgInternalError
\* of index.ts:77, MsgReceived of index.ts:134, MsgConnectError of index.ts:145.
MsgMethodNotAllowed == "method not allowed"
MsgInternalError == "internal server error"
MsgReceived == "MCP request received"
MsgConnectError == "error while connecting MCP:"
MsgCloseFallback == "Transport close failed after connection error:"

\* c.json(body, {status}) : a response is its status and its JSON body.
json(body, status) == [status |-> status, body |-> body]

\* The body of methodNotAllowedHandler's response.
MethodNotAllowedBody ==
    [jsonrpc |-> "2.0", code |-> -32000, message |-> MsgMethodNotAllowed, id |-> "null"]

\* The body of handleError's response.
InternalErrorBody ==
    [jsonrpc |-> "2.0", code |-> -32603, message |-> MsgInternalError, id |-> "null"]

\* No response produced (yet, or ever when the handler threw).
NoResponse == [status |-> 0, body |-> [jsonrpc |-> "", code |-> 0, message |-> "", id |-> ""]]

\* What transport.handleRequest(c) may return: the engine decides it.  A
\* JSON-RPC result with status 200 and a JSON-RPC error built by the transport.
TransportResponses ==
    { [status |-> 200, body |-> [jsonrpc |-> "2.0", code |-> 0, message |-> "result", id |-> "1"]],
      [status |-> 400, body |-> [jsonrpc |-> "2.0", code |-> -32700, message |-> "parse error", id |-> "null"]] }

\* A log entry of the powertools logger: level, message, and the failure it reports.
LogEntry(level, message, detail) == [level |-> level, message |-> message, detail |-> detail]

\* An operation issued to a collaborator: its name, the instance it is issued
\* on, and the instance passed to it (0: none).
Op(name, id, arg) == [op |-> name, id |-> id, arg |-> arg]

VARIABLES
    pc,           \* pc[c]: position of call c
    route,        \* route[c]: the handler call c was dispatched to ("" before it arrives)
    server,       \* server[c]: the engine instance of call c (0: none)
    transport,    \* transport[c]: the transport instance of call c (0: none)
    engines,      \* number of engine instances the factory has returned
    transports,   \* number of transport instances constructed
    ops,          \* ops[c]: operations call c issued to its collaborators, in order
    error,        \* error[c]: the failure caught by handleRequest's catch ("" none)
    closeResults, \* closeResults[c]: the two promises of closeResources, <<transport, server>>
    result,       \* result[c]: the value handleRequest returned to the route handler
    handled,      \* handled[c]: the value transport.handleRequest fulfilled with
    response,     \* response[c]: the response of the route handler
    thrown,       \* thrown[c]: the exception that escaped the route handler ("" none)
    log           \* log[c]: the entries call c wrote to the logger, in order

vars == <<pc, route, server, transport, engines, transports, ops, error,
          closeResults, result, handled, response, thrown, log>>

NotIssued == <<"none", "none">>

TypeOK ==
    /\ pc \in [Calls -> {"idle", "connecting", "handling", "closing", "closed",
                        "returned", "finally", "done"}]
    /\ route \in [Calls -> {Route(v) : v \in AllowedVerbs \cup DisallowedVerbs} \cup {""}]
    /\ server \in [Calls -> 0..NumCalls]
    /\ transport \in [Calls -> 0..NumCalls]
    /\ engines \in 0..NumCalls
    /\ transports \in 0..NumCalls
    /\ error \in [Calls -> {"", "connect", "handleRequest"}]
    /\ closeResults \in [Calls -> {"none", "pending", "fulfilled", "rejected"}
                                  \X {"none", "pending", "fulfilled", "rejected"}]
    /\ thrown \in [Calls -> {"", "createMcpServer", "server.close"}]

Init ==
    /\ pc = [c \in Calls |-> "idle"]
    /\ route = [c \in Calls |-> ""]
    /\ server = [c \in Calls |-> 0]
    /\ transport = [c \in Calls |-> 0]
    /\ engines = 0
    /\ transports = 0
    /\ ops = [c \in Calls |-> <<>>]
    /\ error = [c \in Calls |-> ""]
    /\ closeResults = [c \in Calls |-> NotIssued]
    /\ result = [c \in Calls |-> NoResponse]
    /\ handled = [c \in Calls |-> NoResponse]
    /\ response = [c \in Calls |-> NoResponse]
    /\ thrown = [c \in Calls |-> ""]
    /\ log = [c \in Calls |-> <<>>]

\* Calls are numbered in the order they arrive.
Arrives(c) == pc[c] = "idle" /\ (IF c = 1 THEN TRUE ELSE pc[c - 1] # "idle")

Settled == {"fulfilled", "rejected"}

\* Variant of methodNotAllowedHandler answering with the internal-error
\* envelope and status instead of its own.
methodNotAllowedHandler_InternalError(c) ==
    /\ Arrives(c)
    /\ \E v \in DisallowedVerbs : route' = [route EXCEPT ![c] = Route(v)]
    /\ response' = [response EXCEPT ![c] = json(InternalErrorBody, 500)]
    /\ pc' = [pc EXCEPT ![c] = "done"]
    /\ UNCHANGED <<server, transport, engines, transports, ops, error,
                   closeResults, result, handled, thrown, log>>

(***************************************************************************)
(* methodNotAllowedHandler: PUT, DELETE, PATCH, OPTIONS.                   *)
(***************************************************************************)
methodNotAllowedHandler(c) ==
    /\ Arrives(c)
    /\ \E v \in DisallowedVerbs : route' = [route EXCEPT ![c] = Route(v)]
    /\ response' = [response EXCEPT ![c] = json(MethodNotAllowedBody, 405)]
    /\ pc' = [pc EXCEPT ![c] = "done"]
    /\ UNCHANGED <<server, transport, engines, transports, ops, error,
                   closeResults, result, handled, thrown, log>>

(***************************************************************************)
(* handleError: logs the reason at error level, answers 500.               *)
(***************************************************************************)
handleError(reason, logMessage) ==
    [log |-> <<LogEntry("error", logMessage, reason)>>,
     response |-> json(InternalErrorBody, 500)]

(***************************************************************************)
(* The route handler of app.post / app.get up to its first await:          *)
(* createMcpServer() outside the try, then handleRequest constructs the    *)
(* transport and issues server.connect(transport).                         *)
(***************************************************************************)
createMcpServerThrows(c) ==
    /\ Arrives(c)
    /\ \E v \in AllowedVerbs : route' = [route EXCEPT ![c] = Route(v)]
    /\ ops' = [ops EXCEPT ![c] = <<Op("createMcpServer", 0, 0)>>]
    /\ thrown' = [thrown EXCEPT ![c] = "createMcpServer"]
    /\ pc' = [pc EXCEPT ![c] = "done"]
    /\ UNCHANGED <<server, transport, engines, transports, error,
                   closeResults, result, handled, response, log>>

\* Variant of handleRequest that uses one transport constructed at module
\* level instead of constructing a transport per call.
handleRequest_ModuleLevelTransport(c) ==
    /\ Arrives(c)
    /\ \E v \in AllowedVerbs : route' = [route EXCEPT ![c] = Route(v)]
    /\ engines' = engines + 1
    /\ transports' = 1
    /\ server' = [server EXCEPT ![c] = engines']
    /\ transport' = [transport EXCEPT ![c] = 1]
    /\ ops' = [ops EXCEPT ![c] = <<Op("createMcpServer", engines', 0),
                                    Op("server.connect", engines', 1)>>]
    /\ pc' = [pc EXCEPT ![c] = "connecting"]
    /\ UNCHANGED <<error, closeResults, result, handled, response, thrown, log>>

\* Variant of handleRequest that does not await server.connect(transport):
\* transport.handleRequest(c) is issued while the connect is still pending.
handleRequest_ConnectNotAwaited(c) ==
    /\ Arrives(c)
    /\ \E v \in AllowedVerbs : route' = [route EXCEPT ![c] = Route(v)]
    /\ engines' = engines + 1
    /\ transports' = transports + 1
    /\ server' = [server EXCEPT ![c] = engines']
    /\ transport' = [transport EXCEPT ![c] = transports']
    /\ ops' = [ops EXCEPT ![c] = <<Op("createMcpServer", engines', 0),
                                    Op("new StreamableHTTPTransport", transports', 0),
                                    Op("server.connect", engines', transports'),
                                    Op("transport.handleRequest", transports', 0)>>]
    /\ pc' = [pc EXCEPT ![c] = "connecting"]
    /\ UNCHANGED <<error, closeResults, result, handled, response, thrown, log>>

handleRequest(c) ==
    /\ Arrives(c)
    /\ \E v \in AllowedVerbs : route' = [route EXCEPT ![c] = Route(v)]
    /\ engines' = engines + 1
    /\ transports' = transports + 1
    /\ server' = [server EXCEPT ![c] = engines']
    /\ transport' = [transport EXCEPT ![c] = transports']
    /\ ops' = [ops EXCEPT ![c] = <<Op("createMcpServer", engines', 0),
                                    Op("new StreamableHTTPTransport", transports', 0),
                                    Op("server.connect", engines', transports')>>]
    /\ pc' = [pc EXCEPT ![c] = "connecting"]
    /\ UNCHANGED <<error, closeResults, result, handled, response, thrown, log>>

(***************************************************************************)
(* closeResources: both closes are issued, transport first, and awaited    *)
(* with Promise.allSettled.                                                *)
(***************************************************************************)
\* Variant of closeCalls that closes the transport only.
closeCalls_TransportOnly(c) ==
    <<Op("transport.close", transport[c], 0)>>

closeCalls(c) ==
    <<Op("transport.close", transport[c], 0), Op("server.close", server[c], 0)>>

\* The catch block of handleRequest up to the await of closeResources.
catch(c, failure) ==
    /\ error' = [error EXCEPT ![c] = failure]
    /\ ops' = [ops EXCEPT ![c] = @ \o closeCalls(c)]
    /\ closeResults' = [closeResults EXCEPT ![c] = <<"pending", "pending">>]
    /\ pc' = [pc EXCEPT ![c] = "closing"]

\* await server.connect(transport) fulfils: trace log, transport.handleRequest(c).
connectFulfilled(c) ==
    /\ pc[c] = "connecting"
    /\ log' = [log EXCEPT ![c] = Append(@, LogEntry("trace", MsgReceived, ""))]
    /\ ops' = [ops EXCEPT ![c] = Append(@, Op("transport.handleRequest", transport[c], 0))]
    /\ pc' = [pc EXCEPT ![c] = "handling"]
    /\ UNCHANGED <<route, server, transport, engines, transports, error,
                   closeResults, result, handled, response, thrown>>

\* await server.connect(transport) rejects.
connectRejected(c) ==
    /\ pc[c] = "connecting"
    /\ catch(c, "connect")
    /\ UNCHANGED <<route, server, transport, engines, transports,
                   result, handled, response, thrown, log>>

\* await transport.handleRequest(c) fulfils: handleRequest returns its value.
\* The route handler that awaits handleRequest resumes in a later turn.
handleFulfilled(c) ==
    /\ pc[c] = "handling"
    /\ \E r \in TransportResponses :
          /\ handled' = [handled EXCEPT ![c] = r]
          /\ result' = [result EXCEPT ![c] = r]
    /\ pc' = [pc EXCEPT ![c] = "returned"]
    /\ UNCHANGED <<route, server, transport, engines, transports, ops, error,
                   closeResults, response, thrown, log>>

\* await transport.handleRequest(c) rejects.
handleRejected(c) ==
    /\ pc[c] = "handling"
    /\ catch(c, "handleRequest")
    /\ UNCHANGED <<route, server, transport, engines, transports,
                   result, handled, response, thrown, log>>

\* transport.close() of closeResources settles.
transportCloseSettled(c) ==
    /\ pc[c] = "closing"
    /\ closeResults[c][1] = "pending"
    /\ \E r \in Settled : closeResults' = [closeResults EXCEPT ![c][1] = r]
    /\ UNCHANGED <<pc, route, server, transport, engines, transports, ops, error,
                   result, handled, response, thrown, log>>

\* server.close() of closeResources settles.
serverCloseSettled(c) ==
    /\ pc[c] = "closing"
    /\ closeResults[c][2] = "pending"
    /\ \E r \in Settled : closeResults' = [closeResults EXCEPT ![c][2] = r]
    /\ UNCHANGED <<pc, route, server, transport, engines, transports, ops, error,
                   result, handled, response, thrown, log>>

\* Promise.all: settles at the first rejection, or when all have fulfilled.
PromiseAll(promises) ==
    [settled |-> \/ \E i \in 1..Len(promises) : promises[i] = "rejected"
                 \/ \A i \in 1..Len(promises) : promises[i] = "fulfilled",
     status |-> IF \E i \in 1..Len(promises) : promises[i] = "rejected"
                THEN "rejected" ELSE "fulfilled"]

\* Promise.allSettled: settles when every promise has settled, and always fulfils.
PromiseAllSettled(promises) ==
    [settled |-> \A i \in 1..Len(promises) : promises[i] \in Settled,
     status |-> "fulfilled"]

\* Variant of closeErrors with the resource names of the two indexes swapped.
closeErrors_NamesSwapped(results) ==
    (IF results[1] = "rejected"
     THEN <<LogEntry("error", "Error closing server:", "transport.close")>> ELSE <<>>)
    \o
    (IF results[2] = "rejected"
     THEN <<LogEntry("error", "Error closing transport:", "server.close")>> ELSE <<>>)

\* The forEach of closeResources: one error entry per rejected close.
closeErrors(results) ==
    (IF results[1] = "rejected"
     THEN <<LogEntry("error", "Error closing transport:", "transport.close")>> ELSE <<>>)
    \o
    (IF results[2] = "rejected"
     THEN <<LogEntry("error", "Error closing server:", "server.close")>> ELSE <<>>)

\* Variant of closeResources that lets a rejected close escape (Promise.all in
\* place of Promise.allSettled: the await throws, the forEach never runs).
closeResources_Rethrows(results) ==
    IF PromiseAll(results).status = "rejected"
    THEN [raised |-> TRUE, log |-> <<>>]
    ELSE [raised |-> FALSE, log |-> closeErrors(results)]

\* closeResources once its await has settled: what it logged, whether it raised.
closeResources(results) ==
    IF PromiseAllSettled(results).status = "rejected"
    THEN [raised |-> TRUE, log |-> <<>>]
    ELSE [raised |-> FALSE, log |-> closeErrors(results)]

\* The await of Promise.allSettled in closeResources settles: closeResources
\* resumes, logs the rejected closes and returns. handleRequest, which awaits
\* closeResources, resumes in a later turn.
closeResourcesSettled(c) ==
    /\ pc[c] = "closing"
    /\ PromiseAllSettled(closeResults[c]).settled
    /\ log' = [log EXCEPT ![c] = @ \o closeResources(closeResults[c]).log]
    /\ pc' = [pc EXCEPT ![c] = "closed"]
    /\ UNCHANGED <<route, server, transport, engines, transports, ops, error,
                   closeResults, result, handled, response, thrown>>

\* await closeResources(server, transport) settles in handleRequest's catch:
\* the fallback catch logs if it raised, handleError logs and builds the 500
\* response, and handleRequest returns it. The route handler resumes in a
\* later turn.
handleErrorReturned(c) ==
    /\ pc[c] = "closed"
    /\ LET fallback == IF closeResources(closeResults[c]).raised
                       THEN <<LogEntry("error", MsgCloseFallback, "closeResources")>>
                       ELSE <<>>
           answer == handleError(error[c], MsgConnectError)
       IN /\ log' = [log EXCEPT ![c] = @ \o fallback \o answer.log]
          /\ result' = [result EXCEPT ![c] = answer.response]
    /\ pc' = [pc EXCEPT ![c] = "returned"]
    /\ UNCHANGED <<route, server, transport, engines, transports, ops, error,
                   closeResults, handled, response, thrown>>

\* Variant of finallyClose that closes the transport as well as the engine.
finallyClose_ClosesTransport(c) ==
    /\ pc[c] = "returned"
    /\ ops' = [ops EXCEPT ![c] = @ \o closeCalls(c)]
    /\ pc' = [pc EXCEPT ![c] = "finally"]
    /\ UNCHANGED <<route, server, transport, engines, transports, error,
                   closeResults, result, handled, response, thrown, log>>

\* await handleRequest(server, c) settles in the route handler: its finally
\* issues server.close().
finallyClose(c) ==
    /\ pc[c] = "returned"
    /\ ops' = [ops EXCEPT ![c] = Append(@, Op("server.close", server[c], 0))]
    /\ pc' = [pc EXCEPT ![c] = "finally"]
    /\ UNCHANGED <<route, server, transport, engines, transports, error,
                   closeResults, result, handled, response, thrown, log>>

\* await server.close() of the finally fulfils: the handler returns the result.
finallyCloseFulfilled(c) ==
    /\ pc[c] = "finally"
    /\ response' = [response EXCEPT ![c] = result[c]]
    /\ pc' = [pc EXCEPT ![c] = "done"]
    /\ UNCHANGED <<route, server, transport, engines, transports, ops, error,
                   closeResults, result, handled, thrown, log>>

\* await server.close() of the finally rejects: the rejection replaces the
\* return value and escapes the route handler.
finallyCloseRejected(c) ==
    /\ pc[c] = "finally"
    /\ thrown' = [thrown EXCEPT ![c] = "server.close"]
    /\ pc' = [pc EXCEPT ![c] = "done"]
    /\ UNCHANGED <<route, server, transport, engines, transports, ops, error,
                   closeResults, result, handled, response, log>>

Next ==
    \E c \in Calls :
        \/ methodNotAllowedHandler(c)
        \/ createMcpServerThrows(c)
        \/ handleRequest(c)
        \/ connectFulfilled(c)
        \/ connectRejected(c)
        \/ handleFulfilled(c)
        \/ handleRejected(c)
        \/ transportCloseSettled(c)
        \/ serverCloseSettled(c)
        \/ closeResourcesSettled(c)
        \/ handleErrorReturned(c)
        \/ finallyClose(c)
        \/ finallyCloseFulfilled(c)
        \/ finallyCloseRejected(c)

Spec == Init /\ [][Next]_vars

\* The factory-based application of package/src/index.ts under the name that
\* contrasts it with the single-instance variant below: the same initial
\* state and the same steps as Spec.
SpecFactory == Init /\ [][Next]_vars

(***************************************************************************)
(* Vocabulary of the properties.                                           *)
(***************************************************************************)
\* The positions in ops[c] where call c issued the operation `name`.
Issued(c, name) == {i \in DOMAIN ops[c] : ops[c][i].op = name}

\* The call went through the lifecycle (POST or GET).
Lifecycle(c) == \E v \in AllowedVerbs : route[c] = Route(v)

\* The call has ended: a response was returned or an exception escaped.
Ended(c) == pc[c] = "done"

\* connect and handle both succeeded in call c.
Succeeded(c) ==
    /\ Lifecycle(c)
    /\ pc[c] \in {"returned", "finally", "done"}
    /\ error[c] = ""
    /\ handled[c] # NoResponse

\* closeResources of call c has returned to the catch block of handleRequest.
CloseResourcesReturned(c) ==
    pc[c] \in {"closed", "returned", "finally", "done"} /\ error[c] # ""

\* The catch block of handleRequest has returned its answer in call c.
CatchReturned(c) ==
    pc[c] \in {"returned", "finally", "done"} /\ error[c] # ""

\* closeResources of call c issued its two closes, on the call's own
\* transport and engine, one right after the other.
BothClosesIssued(c) ==
    \E i \in Issued(c, "transport.close") :
        /\ ops[c][i].id = transport[c]
        /\ i + 1 \in Issued(c, "server.close")
        /\ ops[c][i + 1].id = server[c]

\* The METHOD_NOT_ALLOWED envelope with status 405, as the specification gives it.
METHOD_NOT_ALLOWED ==
    [status |-> 405,
     body |-> [jsonrpc |-> "2.0", code |-> -32000, message |-> MsgMethodNotAllowed, id |-> "null"]]

\* The INTERNAL_ERROR envelope with status 500, as the specification gives it.
INTERNAL_ERROR ==
    [status |-> 500,
     body |-> [jsonrpc |-> "2.0", code |-> -32603, message |-> MsgInternalError, id |-> "null"]]

(***************************************************************************)
(* C1: a call with verb PUT, DELETE, PATCH or OPTIONS never invokes the     *)
(* factory, constructs no transport, issues no connect/handle/close, and   *)
(* is answered with exactly the METHOD_NOT_ALLOWED envelope, status 405.   *)
(***************************************************************************)
C1_DisallowedVerbRejected ==
    \A c \in Calls :
        (\E v \in {"PUT", "DELETE", "PATCH", "OPTIONS"} : route[c] = Route(v)) =>
            /\ ops[c] = <<>>
            /\ server[c] = 0
            /\ transport[c] = 0
            /\ closeResults[c] = NotIssued
            /\ thrown[c] = ""
            /\ Ended(c)
            /\ response[c] = METHOD_NOT_ALLOWED

C1_Witness ==
    /\ route[1] = Route("POST") /\ pc[1] = "handling"
    /\ route[2] = Route("OPTIONS") /\ pc[2] = "done"
    /\ engines = 1 /\ transports = 1

(***************************************************************************)
(* C2 (as claimed): in every POST/GET call where connect and handle both   *)
(* succeed, once the response is produced the engine has been closed       *)
(* exactly once and the transport has been closed exactly once.            *)
(***************************************************************************)
C2_SuccessClosesBothOnce ==
    \A c \in Calls :
        (Succeeded(c) /\ Ended(c) /\ response[c] # NoResponse) =>
            /\ Cardinality(Issued(c, "server.close")) = 1
            /\ Cardinality(Issued(c, "transport.close")) = 1

(***************************************************************************)
(* C3 (as claimed): an engine has at most one transport, and in every      *)
(* POST/GET call that created them, failing or not, the engine and the     *)
(* transport are each closed exactly once before the call returns.         *)
(***************************************************************************)
C3_EachClosedExactlyOnce ==
    \A c \in Calls :
        (Lifecycle(c) /\ Ended(c) /\ server[c] # 0) =>
            /\ Cardinality(Issued(c, "new StreamableHTTPTransport")) <= 1
            /\ Cardinality(Issued(c, "server.close")) = 1
            /\ Cardinality(Issued(c, "transport.close")) = 1

(***************************************************************************)
(* C4 (as claimed): if connect fails, the response is the INTERNAL_ERROR   *)
(* envelope with status 500 and a close was issued on both the transport   *)
(* and the engine.                                                         *)
(***************************************************************************)
C4_ConnectFailureAnswered500 ==
    \A c \in Calls :
        (Ended(c) /\ error[c] = "connect") =>
            /\ response[c] = INTERNAL_ERROR
            /\ Issued(c, "transport.close") # {}
            /\ Issued(c, "server.close") # {}

(***************************************************************************)
(* C5 (as claimed): if connect fails and a close fails too, wherever that  *)
(* close is issued (closeResources or the route handler's finally), the    *)
(* caller still receives the INTERNAL_ERROR envelope with status 500.      *)
(***************************************************************************)
C5_CloseFailureNeverMasks ==
    \A c \in Calls :
        (/\ Ended(c)
         /\ error[c] = "connect"
         /\ \/ closeResults[c][1] = "rejected"
            \/ closeResults[c][2] = "rejected"
            \/ thrown[c] = "server.close") =>
            response[c] = INTERNAL_ERROR

(***************************************************************************)
(* C6 (as claimed): when connect and handle succeeded, the caller receives *)
(* exactly the response of the transport's handle step, whatever the       *)
(* outcome of the closes.                                                  *)
(***************************************************************************)
C6_SuccessReturnsTransportResponse ==
    \A c \in Calls :
        (Succeeded(c) /\ Ended(c)) =>
            /\ thrown[c] = ""
            /\ response[c] = handled[c]
            /\ response[c] \in TransportResponses

(***************************************************************************)
(* C7 (as claimed): every POST/GET call completes with a response, never   *)
(* with an escaping exception, whatever fails (factory, connect, handle,   *)
(* transport close, engine close); on any failure the response is the      *)
(* INTERNAL_ERROR envelope with status 500.                                *)
(***************************************************************************)
C7_NoFailurePropagates ==
    \A c \in Calls :
        (Lifecycle(c) /\ Ended(c)) =>
            /\ thrown[c] = ""
            /\ response[c] # NoResponse
            /\ (\/ error[c] # ""
                \/ closeResults[c][1] = "rejected"
                \/ closeResults[c][2] = "rejected") => response[c] = INTERNAL_ERROR

(***************************************************************************)
(* C8: closeResources issues a close on both the transport and the engine  *)
(* whatever the other's outcome, and returns only when both have settled:  *)
(* a rejected close never leaves the other one unissued or unfinished.     *)
(***************************************************************************)
C8_BothClosesAttempted ==
    \A c \in Calls :
        /\ pc[c] = "closing" =>
              /\ BothClosesIssued(c)
              /\ closeResults[c][1] # "none" /\ closeResults[c][2] # "none"
        /\ CloseResourcesReturned(c) =>
              /\ BothClosesIssued(c)
              /\ closeResults[c][1] \in Settled
              /\ closeResults[c][2] \in Settled

C8_Witness ==
    /\ pc[1] = "closed" /\ closeResults[1] = <<"rejected", "fulfilled">>
    /\ pc[2] = "finally" /\ closeResults[2] = <<"fulfilled", "rejected">>

(***************************************************************************)
(* C9: closeResources never raises: whatever the two closes did, it logs   *)
(* one entry per rejected close and returns, so the fallback catch around  *)
(* it in handleRequest is never entered.                                   *)
(***************************************************************************)
C9_CloserNeverRaises ==
    \A c \in Calls :
        /\ \A i \in DOMAIN log[c] : log[c][i].message # MsgCloseFallback
        /\ CloseResourcesReturned(c) =>
              /\ Cardinality({i \in DOMAIN log[c] : log[c][i].detail = "transport.close"})
                   = (IF closeResults[c][1] = "rejected" THEN 1 ELSE 0)
              /\ Cardinality({i \in DOMAIN log[c] : log[c][i].detail = "server.close"})
                   = (IF closeResults[c][2] = "rejected" THEN 1 ELSE 0)
        /\ CatchReturned(c) => log[c][Len(log[c])].message = MsgConnectError

C9_Witness ==
    /\ pc[1] = "returned" /\ closeResults[1] = <<"rejected", "rejected">>
    /\ pc[2] = "closed" /\ closeResults[2] = <<"fulfilled", "fulfilled">>
    /\ error[2] = "handleRequest"

(***************************************************************************)
(* C10: within a call, connect is issued before handle, handle is issued   *)
(* only once connect has fulfilled, and never when connect failed.         *)
(***************************************************************************)
C10_ConnectBeforeHandle ==
    \A c \in Calls :
        /\ \A j \in Issued(c, "transport.handleRequest") :
              /\ \E i \in Issued(c, "server.connect") : i < j
              /\ pc[c] # "connecting"
              /\ error[c] # "connect"
        /\ Cardinality(Issued(c, "transport.handleRequest")) <= 1
        /\ pc[c] = "handling" => Issued(c, "transport.handleRequest") # {}
        /\ error[c] = "handleRequest" => Issued(c, "transport.handleRequest") # {}

C10_Witness ==
    /\ error[1] = "connect" /\ pc[1] = "done"
    /\ Issued(1, "server.connect") # {} /\ Issued(1, "transport.handleRequest") = {}
    /\ pc[2] = "handling"

(***************************************************************************)
(* C11 (as claimed): within a POST/GET call both close attempts (transport *)
(* and engine) are issued after connect/handle has completed or failed,    *)
(* never before, and on no path (success, connect failure, handle          *)
(* failure) is either of them skipped.                                     *)
(***************************************************************************)
C11_BothClosesAlwaysIssued ==
    \A c \in Calls :
        (Lifecycle(c) /\ server[c] # 0) =>
            /\ \A i \in Issued(c, "transport.close") \cup Issued(c, "server.close") :
                  /\ pc[c] \notin {"connecting", "handling"}
                  /\ \A j \in Issued(c, "server.connect")
                              \cup Issued(c, "transport.handleRequest") : j < i
            /\ Ended(c) =>
                  /\ Issued(c, "transport.close") # {}
                  /\ Issued(c, "server.close") # {}

(***************************************************************************)
(* C12 (as claimed): if handle fails after a successful connect, closure   *)
(* of both the engine and the transport is attempted first, only then is   *)
(* the response produced, and that response is the INTERNAL_ERROR envelope *)
(* with status 500.                                                        *)
(***************************************************************************)
C12_HandleFailureAnswered500 ==
    \A c \in Calls :
        /\ (pc[c] = "closing" /\ error[c] = "handleRequest") =>
              /\ BothClosesIssued(c)
              /\ result[c] = NoResponse
              /\ response[c] = NoResponse
        /\ (Ended(c) /\ error[c] = "handleRequest") =>
              /\ BothClosesIssued(c)
              /\ closeResults[c][1] \in Settled
              /\ closeResults[c][2] \in Settled
              /\ response[c] = INTERNAL_ERROR

(***************************************************************************)
(* C13: across any interleaving of POST/GET calls, each call invokes the   *)
(* factory once and constructs one new transport, no two calls connect,    *)
(* use or close the same engine or transport instance, and every operation *)
(* a call issues, closes included, is on the pair it created itself.       *)
(***************************************************************************)
C13_CallsOwnFreshPair ==
    \A c \in Calls :
        Lifecycle(c) =>
            /\ Len(ops[c]) >= 1
            /\ ops[c][1] = Op("createMcpServer", server[c], 0)
            /\ IF server[c] = 0
               THEN Len(ops[c]) = 1 /\ transport[c] = 0
               ELSE /\ transport[c] # 0
                    /\ ops[c][2] = Op("new StreamableHTTPTransport", transport[c], 0)
                    /\ ops[c][3] = Op("server.connect", server[c], transport[c])
                    /\ \A i \in 4..Len(ops[c]) :
                          \/ ops[c][i] = Op("transport.handleRequest", transport[c], 0)
                          \/ ops[c][i] = Op("transport.close", transport[c], 0)
                          \/ ops[c][i] = Op("server.close", server[c], 0)
                    /\ \A d \in Calls :
                          (d > c /\ server[d] # 0) =>
                              /\ server[c] # server[d]
                              /\ transport[c] # transport[d]

C13_Witness ==
    /\ route[1] = Route("POST") /\ route[2] = Route("GET")
    /\ pc[1] = "handling"
    /\ pc[2] = "closing" /\ closeResults[2] = <<"pending", "pending">>
    /\ server[1] # server[2] /\ transport[1] # transport[2]

\* The entries of call c's log with the given level / message.
IsError(e) == e.level = "error"
ErrorEntries(c) == SelectSeq(log[c], IsError)
WithMessage(c, message) == {i \in DOMAIN log[c] : log[c][i].message = message}
ErrorsAbout(c, detail) ==
    {i \in DOMAIN log[c] : log[c][i].level = "error" /\ log[c][i].detail = detail}

(***************************************************************************)
(* C14 (as claimed): every failure in a POST/GET call is logged at error   *)
(* level: the connection failure, the handling failure and every closure   *)
(* failure of the transport or of the engine, on whichever path the close  *)
(* is issued, each have their own entry; only the connect/handle failure   *)
(* determines the response's error code.                                   *)
(***************************************************************************)
C14_EveryFailureLogged ==
    \A c \in Calls :
        (Lifecycle(c) /\ Ended(c)) =>
            /\ error[c] # "" => Cardinality(ErrorsAbout(c, error[c])) = 1
            /\ Cardinality(ErrorsAbout(c, "transport.close"))
                 = (IF closeResults[c][1] = "rejected" THEN 1 ELSE 0)
            /\ Cardinality(ErrorsAbout(c, "server.close"))
                 = (IF closeResults[c][2] = "rejected" THEN 1 ELSE 0)
                   + (IF thrown[c] = "server.close" THEN 1 ELSE 0)
            /\ (error[c] # "" /\ response[c] # NoResponse) => response[c].body.code = -32603

(***************************************************************************)
(* C15: closeResources writes exactly one error entry per rejected close   *)
(* and none for a fulfilled one, and the entry names the resource that     *)
(* failed (transport / server); so after a connection failure whose closes *)
(* all fulfil, the connection error is the only error entry.               *)
(***************************************************************************)
C15_OneEntryPerRejectedClose ==
    \A c \in Calls :
        /\ \A i \in WithMessage(c, "Error closing transport:") :
              log[c][i].level = "error" /\ log[c][i].detail = "transport.close"
        /\ \A i \in WithMessage(c, "Error closing server:") :
              log[c][i].level = "error" /\ log[c][i].detail = "server.close"
        /\ CloseResourcesReturned(c) =>
              /\ Cardinality(WithMessage(c, "Error closing transport:"))
                   = (IF closeResults[c][1] = "rejected" THEN 1 ELSE 0)
              /\ Cardinality(WithMessage(c, "Error closing server:"))
                   = (IF closeResults[c][2] = "rejected" THEN 1 ELSE 0)
        /\ (/\ CatchReturned(c)
            /\ error[c] = "connect"
            /\ closeResults[c] = <<"fulfilled", "fulfilled">>)
              => ErrorEntries(c) = <<LogEntry("error", MsgConnectError, "connect")>>
        /\ ~CloseResourcesReturned(c) =>
              /\ WithMessage(c, "Error closing transport:") = {}
              /\ WithMessage(c, "Error closing server:") = {}

C15_Witness ==
    /\ pc[1] = "done" /\ error[1] = "connect"
    /\ closeResults[1] = <<"fulfilled", "fulfilled">> /\ response[1] = INTERNAL_ERROR
    /\ pc[2] = "closed" /\ closeResults[2] = <<"rejected", "fulfilled">>
    /\ Len(ErrorEntries(2)) = 1

(***************************************************************************)
(* C16 (as claimed): every POST/GET call writes a trace-level entry on     *)
(* receipt of the request, on every path of the lifecycle (success,        *)
(* connection failure, handling failure).                                  *)
(***************************************************************************)
C16_TraceOnEveryPath ==
    \A c \in Calls :
        (Lifecycle(c) /\ Ended(c) /\ server[c] # 0) =>
            \E i \in WithMessage(c, MsgReceived) : log[c][i].level = "trace"

(***************************************************************************)
(* C17: in a POST/GET call whose factory returned, the engine's close is   *)
(* invoked at least once on every path: exactly once (the route handler's  *)
(* finally) when connect and handle succeed, exactly twice (closeResources,*)
(* then the finally) when connect or handle fails.                         *)
(***************************************************************************)
C17_EngineCloseCount ==
    \A c \in Calls :
        (Lifecycle(c) /\ server[c] # 0) =>
            /\ pc[c] \in {"connecting", "handling"} => Issued(c, "server.close") = {}
            /\ pc[c] \in {"closing", "closed"} =>
                  Cardinality(Issued(c, "server.close")) = 1
            /\ pc[c] = "returned" =>
                  Cardinality(Issued(c, "server.close")) = (IF error[c] = "" THEN 0 ELSE 1)
            /\ pc[c] \in {"finally", "done"} =>
                  /\ ops[c][Len(ops[c])] = Op("server.close", server[c], 0)
                  /\ error[c] = "" => Cardinality(Issued(c, "server.close")) = 1
                  /\ error[c] # "" =>
                        /\ Cardinality(Issued(c, "server.close")) = 2
                        /\ BothClosesIssued(c)

C17_Witness ==
    /\ pc[1] = "done" /\ error[1] = "" /\ response[1] \in TransportResponses
    /\ Cardinality(Issued(1, "server.close")) = 1
    /\ pc[2] = "done" /\ error[2] = "handleRequest"
    /\ Cardinality(Issued(2, "server.close")) = 2

(***************************************************************************)
(* C18: the lifecycle manager issues transport.close() in a POST/GET call  *)
(* if and only if connect or handle failed in that call; when both         *)
(* succeed the only close it issues is the engine's.                       *)
(***************************************************************************)
C18_TransportCloseOnlyOnFailure ==
    \A c \in Calls :
        (Lifecycle(c) /\ server[c] # 0) =>
            /\ Issued(c, "transport.close") # {} <=> error[c] # ""
            /\ Cardinality(Issued(c, "transport.close")) <= 1
            /\ (Succeeded(c) /\ Ended(c)) =>
                  /\ Issued(c, "transport.close") = {}
                  /\ Cardinality(Issued(c, "server.close")) = 1

C18_Witness ==
    /\ pc[1] = "done" /\ Succeeded(1) /\ Issued(1, "transport.close") = {}
    /\ pc[2] = "done" /\ error[2] = "connect" /\ Issued(2, "transport.close") # {}

(***************************************************************************)
(* The single-instance variant createHonoApp(server) of                    *)
(* example/bin/example.ts: every call uses the one engine the application  *)
(* was created with; there is no factory and no finally.  Its              *)
(* methodNotAllowedHandler, handleError, closeResources and the body of    *)
(* handleRequest are the same code as the package's.                       *)
(***************************************************************************)
\* The engine passed to createHonoApp.
SharedServer == 1

InitShared ==
    /\ pc = [c \in Calls |-> "idle"]
    /\ route = [c \in Calls |-> ""]
    /\ server = [c \in Calls |-> SharedServer]
    /\ transport = [c \in Calls |-> 0]
    /\ engines = 1
    /\ transports = 0
    /\ ops = [c \in Calls |-> <<>>]
    /\ error = [c \in Calls |-> ""]
    /\ closeResults = [c \in Calls |-> NotIssued]
    /\ result = [c \in Calls |-> NoResponse]
    /\ handled = [c \in Calls |-> NoResponse]
    /\ response = [c \in Calls |-> NoResponse]
    /\ thrown = [c \in Calls |-> ""]
    /\ log = [c \in Calls |-> <<>>]

\* The route handler of app.post / app.get up to its first await:
\* handleRequest(server, c) constructs the transport and issues
\* server.connect(transport) on the shared engine.
handleRequestShared(c) ==
    /\ Arrives(c)
    /\ \E v \in AllowedVerbs : route' = [route EXCEPT ![c] = Route(v)]
    /\ transports' = transports + 1
    /\ transport' = [transport EXCEPT ![c] = transports']
    /\ ops' = [ops EXCEPT ![c] = <<Op("new StreamableHTTPTransport", transports', 0),
                                    Op("server.connect", server[c], transports')>>]
    /\ pc' = [pc EXCEPT ![c] = "connecting"]
    /\ UNCHANGED <<server, engines, error, closeResults, result, handled,
                   response, thrown, log>>

\* await handleRequest(server, c) settles in the route handler: the handler
\* returns the value.
routeReturnShared(c) ==
    /\ pc[c] = "returned"
    /\ response' = [response EXCEPT ![c] = result[c]]
    /\ pc' = [pc EXCEPT ![c] = "done"]
    /\ UNCHANGED <<route, server, transport, engines, transports, ops, error,
                   closeResults, result, handled, thrown, log>>

NextShared ==
    \E c \in Calls :
        \/ methodNotAllowedHandler(c)
        \/ handleRequestShared(c)
        \/ connectFulfilled(c)
        \/ connectRejected(c)
        \/ handleFulfilled(c)
        \/ handleRejected(c)
        \/ transportCloseSettled(c)
        \/ serverCloseSettled(c)
        \/ closeResourcesSettled(c)
        \/ handleErrorReturned(c)
        \/ routeReturnShared(c)

SpecShared == InitShared /\ [][NextShared]_vars

(***************************************************************************)
(* C19 (as claimed): in the single-instance variant no interleaving of two *)
(* POST/GET calls lets one call's failure path close the engine while the  *)
(* other call is between its connect and the completion of its handle on   *)
(* that engine: no step in which call a enters its catch and issues        *)
(* server.close() is taken while call b, on the same engine, has connected *)
(* and is still awaiting transport.handleRequest.                          *)
(***************************************************************************)
C19_NoCloseUnderOtherCall ==
    [][\A a \in Calls : \A b \in Calls \ {a} :
          (/\ server[a] = server[b]
           /\ pc[b] = "handling"
           /\ pc[a] \in {"connecting", "handling"})
          => ~(/\ pc'[a] = "closing"
               /\ \E i \in DOMAIN ops'[a] :
                     ops'[a][i] = Op("server.close", server[b], 0))]_vars
====
